---- MODULE Spec2Model ----
(***************************************************************************)
(* SitePulse: collector (scrape_websites.py), scorer (tfidf_analysis.py),  *)
(* differ/renderer (generate_wordclouds.py) and the UI driver (app.py).    *)
(*                                                                         *)
(* Strings are sequences of one-character strings, so that the regular     *)
(* expressions and urlparse of url_to_filename act on characters.  Scores  *)
(* are fixed-point numbers in thousandths (0.01 is 10).  A Python call     *)
(* that may raise returns a record [exc, val]: exc = "none" is a normal    *)
(* return of val.                                                          *)
(***************************************************************************)
EXTENDS Integers, Sequences, FiniteSets, TLC

VARIABLES
    url,        \* SpecKey: the string handed to url_to_filename
    key,        \* SpecKey: its result (a Python outcome record)
    key2,       \* SpecKey: the result of applying url_to_filename to key.val
    kpc,        \* SpecKey: position "in" -> "once" -> "twice"
    tfidf_a,    \* SpecDiff: score map A, a sequence of [term, score] (a dict in insertion order)
    tfidf_b,    \* SpecDiff: score map B
    diff_ab,    \* SpecDiff: _compute_difference(tfidf_a, tfidf_b)
    diff_ba,    \* SpecDiff: _compute_difference(tfidf_b, tfidf_a)
    dpc,        \* SpecDiff: position "in" -> "done"
    httpx_SSLError,  \* Spec: whether the installed httpx defines SSLError (line 168)
    business_url,    \* Spec: the business URL of the form
    competitor_urls, \* Spec: the competitor URLs of the form, a list
    filter_words,    \* Spec: main's filter_words of the current run
    stage,           \* Spec: main's position: "idle", "collect", "score", "render", "shown", "failed"
    ui_error,        \* Spec: the exception main reported in st.error, "none" without one
    site_files,      \* Spec: data/site-<key>.txt for every key: [exists, text]
    json_files,      \* Spec: data/tfidf-<key>.json and -competitors.json of the business: [exists, map]
    png_files,       \* Spec: the images of the business that exist under output/
    crawled,         \* Spec: the scrape_websites call of this run: whether all was cached, what it did with each url
    scored,          \* Spec: the last compute_tfidf call since the run began: argument, site files before it, outcome
    sentinels,       \* Spec: the urls for which scrape_websites has written an empty file
    feature_names,     \* SpecTopN: vectorizer.get_feature_names_out()
    business_scores,   \* SpecTopN: row 0 of the tf-idf matrix, in thousandths
    competitor_scores, \* SpecTopN: row 1 of the tf-idf matrix
    business_tfidf,    \* SpecTopN: the business score map as written
    competitor_tfidf,  \* SpecTopN: the competitors score map as written
    tpc,               \* SpecTopN: position "in" -> "done"
    served,            \* SpecCrawl: what the crawled site serves
    crawl,             \* SpecCrawl: the outcome of _crawl_and_clean_site's page loop, its list texts
    cpc,               \* SpecCrawl: position "in" -> "done"
    warning_counts,    \* SpecLog: the module's warning_counts, 0 for a key that was never counted
    emitted,           \* SpecLog: the records handed to logging.warning, in order: [key, text]
    calls,             \* SpecLog: the keys of the log_warning calls so far, in order
    wc_json,           \* SpecRender: the two score maps on disk
    wc_layout,         \* SpecRender: the images whose layout WordCloud refuses with ValueError
    wc_out,            \* SpecRender: the outcome of generate_wordclouds: exception, images written
    rpc                \* SpecRender: position "in" -> "done"

keyVars == <<url, key, key2, kpc>>

diffVars == <<tfidf_a, tfidf_b, diff_ab, diff_ba, dpc>>

pipeVars == <<httpx_SSLError, business_url, competitor_urls, filter_words, stage,
              ui_error, site_files, json_files, png_files, crawled, scored,
              sentinels>>

topVars == <<feature_names, business_scores, competitor_scores, business_tfidf,
             competitor_tfidf, tpc>>

crawlVars == <<served, crawl, cpc>>

logVars == <<warning_counts, emitted, calls>>

renderVars == <<wc_json, wc_layout, wc_out, rpc>>

vars == <<keyVars, diffVars, pipeVars, topVars, crawlVars, logVars, renderVars>>

----------------------------------------------------------------------------
(* Python outcomes *)

Ok(v) == [exc |-> "none", val |-> v]

Raise(e) == [exc |-> e, val |-> <<>>]

----------------------------------------------------------------------------
(* Each specification below exercises one part of the program; the state   *)
(* of the other parts stays at these values.                               *)

KeyIdle ==
    /\ url = <<>>
    /\ key = Ok(<<>>)
    /\ key2 = Ok(<<>>)
    /\ kpc = "in"

DiffIdle ==
    /\ tfidf_a = <<>>
    /\ tfidf_b = <<>>
    /\ diff_ab = <<>>
    /\ diff_ba = <<>>
    /\ dpc = "in"

PipeIdle ==
    /\ httpx_SSLError = FALSE
    /\ business_url = <<>>
    /\ competitor_urls = <<>>
    /\ filter_words = <<>>
    /\ stage = "idle"
    /\ ui_error = "none"
    /\ site_files = <<>>
    /\ json_files = <<>>
    /\ png_files = {}
    /\ crawled = <<>>
    /\ scored = <<>>
    /\ sentinels = {}

TopIdle ==
    /\ feature_names = <<>>
    /\ business_scores = <<>>
    /\ competitor_scores = <<>>
    /\ business_tfidf = <<>>
    /\ competitor_tfidf = <<>>
    /\ tpc = "in"

CrawlIdle ==
    /\ served = <<>>
    /\ crawl = <<>>
    /\ cpc = "in"

LogIdle ==
    /\ warning_counts = <<>>
    /\ emitted = <<>>
    /\ calls = <<>>

RenderIdle ==
    /\ wc_json = <<>>
    /\ wc_layout = {}
    /\ wc_out = <<>>
    /\ rpc = "in"

----------------------------------------------------------------------------
(* Characters and strings *)

LowerSeq == <<"a","b","c","d","e","f","g","h","i","j","k","l","m",
              "n","o","p","q","r","s","t","u","v","w","x","y","z">>

UpperSeq == <<"A","B","C","D","E","F","G","H","I","J","K","L","M",
              "N","O","P","Q","R","S","T","U","V","W","X","Y","Z">>

DigitSeq == <<"0","1","2","3","4","5","6","7","8","9">>

Range(s) == {s[i] : i \in DOMAIN s}

AsciiAlpha == Range(LowerSeq) \cup Range(UpperSeq)

AsciiDigit == Range(DigitSeq)

\* the class [0-9a-zA-Z] of the two regular expressions
AlnumClass == AsciiAlpha \cup AsciiDigit

\* urllib.parse.scheme_chars
scheme_chars == AsciiAlpha \cup AsciiDigit \cup {"+", "-", "."}

\* s.find(c) with 1-based positions: 0 when c does not occur
Find(s, c) ==
    IF \E i \in DOMAIN s : s[i] = c
    THEN CHOOSE i \in DOMAIN s : s[i] = c /\ \A j \in 1..(i-1) : s[j] # c
    ELSE 0

\* position of the first character of s, at or after from, that is in cs;
\* Len(s)+1 when there is none
FindAny(s, cs, from) ==
    IF \E i \in from..Len(s) : s[i] \in cs
    THEN CHOOSE i \in from..Len(s) :
             s[i] \in cs /\ \A j \in from..(i-1) : s[j] \notin cs
    ELSE Len(s) + 1

Slice(s, lo, hi) == IF lo > hi THEN <<>> ELSE SubSeq(s, lo, hi)

----------------------------------------------------------------------------
(* urllib.parse.urlparse, as far as url_to_filename and the crawler use it: *)
(* scheme, netloc and path.  A netloc holding "[" without "]" raises.       *)

\* "[" without "]", or "]" without "[", in the netloc
UnmatchedBracket(netloc) ==
    \/ ("[" \in Range(netloc) /\ "]" \notin Range(netloc))
    \/ ("]" \in Range(netloc) /\ "[" \notin Range(netloc))

\* the result for a netloc and what follows it: the path ends at "?" or "#"
ParseResult(scheme, netloc, tail) ==
    IF UnmatchedBracket(netloc)
    THEN Raise("ValueError")
    ELSE Ok([scheme |-> scheme, netloc |-> netloc,
             path |-> Slice(tail, 1, FindAny(tail, {"?", "#"}, 1) - 1)])

\* rest is the URL behind its scheme; a netloc follows "//" and ends at
\* delim, the first of "/", "?", "#" behind it
ParseNetloc(scheme, rest, delim) ==
    IF Len(rest) >= 2 /\ rest[1] = "/" /\ rest[2] = "/"
    THEN ParseResult(scheme, Slice(rest, 3, delim - 1), Slice(rest, delim, Len(rest)))
    ELSE ParseResult(scheme, <<>>, rest)

ParseRest(scheme, rest) ==
    ParseNetloc(scheme, rest, FindAny(rest, {"/", "?", "#"}, 3))

\* i is the position of the first ":" of u; what is before it is a scheme
\* if it starts with a letter and holds scheme characters only
ParseScheme(u, i) ==
    IF /\ i > 1
       /\ u[1] \in AsciiAlpha
       /\ \A j \in 1..(i-1) : u[j] \in scheme_chars
    THEN ParseRest(Slice(u, 1, i-1), Slice(u, i+1, Len(u)))
    ELSE ParseRest(<<>>, u)

urlparse(u) == ParseScheme(u, Find(u, ":"))

\* a cleaning that lets the dot of a host name through
RECURSIVE SubNonAlnum_KeepsDots(_)
SubNonAlnum_KeepsDots(s) ==
    IF s = <<>> THEN <<>>
    ELSE IF s[1] \in AlnumClass \cup {"."}
         THEN <<s[1]>> \o SubNonAlnum_KeepsDots(Tail(s))
         ELSE LET n == FindAny(s, AlnumClass \cup {"."}, 1)
              IN  <<"_">> \o SubNonAlnum_KeepsDots(Slice(s, n, Len(s)))

\* re.sub(r"[^0-9a-zA-Z]+", "_", s): every maximal run of characters
\* outside the class becomes one underscore
RECURSIVE SubNonAlnum(_)
SubNonAlnum(s) ==
    IF s = <<>> THEN <<>>
    ELSE IF s[1] \in AlnumClass
         THEN <<s[1]>> \o SubNonAlnum(Tail(s))
         ELSE LET n == FindAny(s, AlnumClass, 1)
              IN  <<"_">> \o SubNonAlnum(Slice(s, n, Len(s)))

\* re.sub(r"_+", "_", s): every maximal run of underscores becomes one
RECURSIVE SubUnderscores(_)
SubUnderscores(s) ==
    IF s = <<>> THEN <<>>
    ELSE IF s[1] # "_"
         THEN <<s[1]>> \o SubUnderscores(Tail(s))
         ELSE LET n == FindAny(s, {c \in Range(s) : c # "_"}, 1)
              IN  <<"_">> \o SubUnderscores(Slice(s, n, Len(s)))

\* lines 46-48: the netloc, or the path where there is none, cleaned
CleanNetloc(parsed) ==
    IF parsed.exc # "none" THEN parsed
    ELSE Ok(SubUnderscores(SubNonAlnum(IF parsed.val.netloc # <<>>
                                       THEN parsed.val.netloc
                                       ELSE parsed.val.path)))

url_to_filename(u) == CleanNetloc(urlparse(u))

----------------------------------------------------------------------------
(* Score maps and _compute_difference (generate_wordclouds.py)             *)

DIFF_THRESHOLD == 10        \* 0.01, in thousandths

SIGNIFICANCE_FACTOR == 4

Max(a, b) == IF a >= b THEN a ELSE b

Keys(d) == {d[i].term : i \in DOMAIN d}

HasKey(d, t) == \E i \in DOMAIN d : d[i].term = t

\* a lookup that never finds the key
Get_Missing(d, t, default) == default

\* d.get(t, default)
Get(d, t, default) ==
    IF HasKey(d, t)
    THEN d[CHOOSE i \in DOMAIN d : d[i].term = t].score
    ELSE default

\* d[t] = v on a dict in insertion order
Put(d, t, v) ==
    IF HasKey(d, t)
    THEN [i \in DOMAIN d |-> IF d[i].term = t THEN [term |-> t, score |-> v] ELSE d[i]]
    ELSE Append(d, [term |-> t, score |-> v])

\* a significance test that wants strictly more than the factor
is_significant_Strict(score_primary, score_secondary_safe) ==
    \/ score_secondary_safe = 0
    \/ score_primary > SIGNIFICANCE_FACTOR * score_secondary_safe

is_significant(score_primary, score_secondary_safe) ==
    \/ score_secondary_safe = 0
    \/ score_primary >= SIGNIFICANCE_FACTOR * score_secondary_safe

\* the loop body of _compute_difference for the i-th item of primary
RECURSIVE DiffLoop(_, _, _, _)
DiffLoop(primary, secondary, i, diff) ==
    IF i > Len(primary) THEN diff
    ELSE LET term == primary[i].term
             score_primary == primary[i].score
             score_secondary == Get(secondary, term, 0)
             score_secondary_safe == Max(score_secondary, 0)
             diff_score == Max(score_primary - score_secondary_safe, 0)
         IN  IF /\ is_significant(score_primary, score_secondary_safe)
                /\ diff_score >= DIFF_THRESHOLD
             THEN DiffLoop(primary, secondary, i + 1, Put(diff, term, diff_score))
             ELSE DiffLoop(primary, secondary, i + 1, diff)

\* a difference that walks the terms of both maps
compute_difference_BothMaps(primary, secondary) ==
    DiffLoop(primary, secondary, 1, <<>>)
    \o DiffLoop(SelectSeq(secondary, LAMBDA e : ~HasKey(primary, e.term)),
                primary, 1, <<>>)

compute_difference(primary, secondary) == DiffLoop(primary, secondary, 1, <<>>)

----------------------------------------------------------------------------
(* SpecDiff: _compute_difference in both directions, as generate_wordclouds *)
(* calls it, on every pair of score maps over DiffTerms with scores in      *)
(* -MaxNegScore..MaxScore.                                                  *)

MaxScore == 16

MaxNegScore == 1

DiffTerms == <<"seo", "web">>

DiffScores == (0 - MaxNegScore)..MaxScore

\* the dicts whose keys are the terms of the sequence ts, in that order
RECURSIVE MapsOver(_)
MapsOver(ts) ==
    IF ts = <<>> THEN {<<>>}
    ELSE {<<[term |-> ts[1], score |-> v]>> \o m : v \in DiffScores, m \in MapsOver(Tail(ts))}

\* a JSON file may list its terms in any order; the order of the secondary
\* map is never read, so B is drawn in one order only
TermOrdersA == {<<>>, <<DiffTerms[1]>>, <<DiffTerms[2]>>, DiffTerms, <<DiffTerms[2], DiffTerms[1]>>}

TermOrdersB == {<<>>, <<DiffTerms[1]>>, <<DiffTerms[2]>>, DiffTerms}

DiffInit ==
    /\ tfidf_a \in UNION {MapsOver(ts) : ts \in TermOrdersA}
    /\ tfidf_b \in UNION {MapsOver(ts) : ts \in TermOrdersB}
    /\ diff_ab = <<>>
    /\ diff_ba = <<>>
    /\ dpc = "in"
    /\ KeyIdle
    /\ PipeIdle
    /\ TopIdle
    /\ CrawlIdle
    /\ LogIdle
    /\ RenderIdle

ComputeDifferences ==
    /\ dpc = "in"
    /\ diff_ab' = compute_difference(tfidf_a, tfidf_b)
    /\ diff_ba' = compute_difference(tfidf_b, tfidf_a)
    /\ dpc' = "done"
    /\ UNCHANGED <<tfidf_a, tfidf_b, keyVars, pipeVars, topVars, crawlVars,
                   logVars, renderVars>>

DiffNext == ComputeDifferences

SpecDiff == DiffInit /\ [][DiffNext]_vars

\* what is specified for term t of primary, whose score is p
DiffAsSpecified(primary, secondary, diff, t) ==
    LET p == Get(primary, t, 0)
        s == Max(Get(secondary, t, 0), 0)
    IN  /\ HasKey(diff, t) <=>
              /\ (s = 0 \/ p >= 4 * s)
              /\ Max(p - s, 0) >= DIFF_THRESHOLD
        /\ HasKey(diff, t) => Get(diff, t, 0) = Max(p - s, 0)

\* C5: every term of the primary map, with score p and s the secondary
\* score clamped at 0, is in the difference exactly when (s = 0 or
\* p >= 4*s) and max(p - s, 0) >= 0.01, and is then mapped to max(p - s, 0);
\* both directions of generate_wordclouds are checked.
C5_DifferenceRule ==
    dpc = "done" =>
        /\ \A t \in Keys(tfidf_a) : DiffAsSpecified(tfidf_a, tfidf_b, diff_ab, t)
        /\ \A t \in Keys(tfidf_b) : DiffAsSpecified(tfidf_b, tfidf_a, diff_ba, t)

\* a term whose primary score is exactly 4 times its positive secondary
\* score is in the difference, next to one at the same boundary that the
\* threshold keeps out
C5_Witness ==
    /\ dpc = "done"
    /\ \E t \in Keys(tfidf_a) :
          /\ Get(tfidf_b, t, 0) > 0
          /\ Get(tfidf_a, t, 0) = 4 * Get(tfidf_b, t, 0)
          /\ HasKey(diff_ab, t)
    /\ \E t \in Keys(tfidf_a) :
          /\ Get(tfidf_b, t, 0) > 0
          /\ Get(tfidf_a, t, 0) = 4 * Get(tfidf_b, t, 0)
          /\ ~HasKey(diff_ab, t)

\* C6: a term that is a key of the secondary map but not of the primary
\* map is never a key of the difference.
C6_SecondaryOnlyAbsent ==
    dpc = "done" =>
        /\ \A t \in Keys(tfidf_b) \ Keys(tfidf_a) : ~HasKey(diff_ab, t)
        /\ \A t \in Keys(tfidf_a) \ Keys(tfidf_b) : ~HasKey(diff_ba, t)

\* B has a term with a large score that A lacks, A - B is not empty and
\* does not hold that term
C6_Witness ==
    /\ dpc = "done"
    /\ diff_ab # <<>>
    /\ \E t \in Keys(tfidf_b) \ Keys(tfidf_a) :
          /\ Get(tfidf_b, t, 0) >= DIFF_THRESHOLD
          /\ HasKey(diff_ba, t)
          /\ ~HasKey(diff_ab, t)

----------------------------------------------------------------------------
(* SpecKey: url_to_filename on every string over UrlChars up to MaxUrlLen   *)

MaxUrlLen == 5

UrlChars == {"a", "Z", "1", "_", ".", "/", ":", "["}

RECURSIVE StringsUpTo(_, _)
StringsUpTo(cs, n) ==
    IF n = 0 THEN {<<>>}
    ELSE LET shorter == StringsUpTo(cs, n - 1)
         IN  shorter \cup {Append(s, c) : s \in shorter, c \in cs}

KeyInit ==
    /\ url \in StringsUpTo(UrlChars, MaxUrlLen)
    /\ key = Ok(<<>>)
    /\ key2 = Ok(<<>>)
    /\ kpc = "in"
    /\ DiffIdle
    /\ PipeIdle
    /\ TopIdle
    /\ CrawlIdle
    /\ LogIdle
    /\ RenderIdle

KeyOnce ==
    /\ kpc = "in"
    /\ key' = url_to_filename(url)
    /\ kpc' = "once"
    /\ UNCHANGED <<url, key2, diffVars, pipeVars, topVars, crawlVars,
                   logVars, renderVars>>

KeyTwice ==
    /\ kpc = "once"
    /\ key.exc = "none"
    /\ key2' = url_to_filename(key.val)
    /\ kpc' = "twice"
    /\ UNCHANGED <<url, key, diffVars, pipeVars, topVars, crawlVars,
                   logVars, renderVars>>

KeyNext == KeyOnce \/ KeyTwice

SpecKey == KeyInit /\ [][KeyNext]_vars

KeyChars == AlnumClass \cup {"_"}

NoDoubleUnderscore(s) ==
    \A i \in 1..(Len(s) - 1) : ~(s[i] = "_" /\ s[i+1] = "_")

\* what url_to_filename cleans: the netloc, or the path when there is none
HostOrPath(u) ==
    IF urlparse(u).val.netloc # <<>>
    THEN urlparse(u).val.netloc ELSE urlparse(u).val.path

\* C7 as stated: for every URL string the key is non-empty, holds only
\* ASCII letters, digits and underscore, has no two consecutive
\* underscores, and url_to_filename maps it to itself.
C7_KeyNonEmptyWellFormed ==
    kpc # "in" =>
        /\ key.exc = "none"
        /\ key.val # <<>>
        /\ Range(key.val) \subseteq KeyChars
        /\ NoDoubleUnderscore(key.val)
        /\ (kpc = "twice" => key2 = key)

\* C7 amended: for every URL string that urlparse accepts the key holds
\* only ASCII letters, digits and underscore, has no two consecutive
\* underscores, and url_to_filename maps it to itself; it is empty exactly
\* when the URL has neither netloc nor path.  url_to_filename raises, with
\* ValueError, exactly when urlparse does.
C7_KeyWellFormed ==
    kpc # "in" =>
        /\ key.exc \in {"none", "ValueError"}
        /\ key.exc = "ValueError" <=> urlparse(url).exc = "ValueError"
        /\ key.exc = "none" =>
              /\ Range(key.val) \subseteq KeyChars
              /\ NoDoubleUnderscore(key.val)
              /\ key.val = <<>> <=> HostOrPath(url) = <<>>
              /\ (kpc = "twice" => key2 = key)

\* a URL with a scheme and a dotted host whose key has been computed
\* twice, the dots having become underscores
C7_Witness ==
    /\ kpc = "twice"
    /\ urlparse(url).val.netloc # <<>>
    /\ "." \in Range(urlparse(url).val.netloc)
    /\ "_" \in Range(key.val)
    /\ Len(key.val) >= 3
    /\ key2 = key

----------------------------------------------------------------------------
(* Texts.  A text is the sequence of its whitespace-separated tokens, a     *)
(* token a string; the empty sequence is the empty or all-blank text.       *)

w_the == <<"t","h","e">>

w_acme == <<"a","c","m","e">>

w_Acme == <<"A","c","m","e">>

w_seo == <<"s","e","o">>

w_web == <<"w","e","b">>

w_42 == <<"4","2">>

\* "\n".join(texts) and ' '.join(tokens), on token sequences
RECURSIVE Join(_)
Join(texts) == IF texts = <<>> THEN <<>> ELSE Head(texts) \o Join(Tail(texts))

----------------------------------------------------------------------------
(* The collector (scrape_websites.py)                                      *)

\* "https://www.acme.com"
U_acme == <<"h","t","t","p","s",":","/","/","w","w","w",".","a","c","m","e",".","c","o","m">>

\* "https://rival.io"
U_rival == <<"h","t","t","p","s",":","/","/","r","i","v","a","l",".","i","o">>

\* "http://rival.io/shop": the host, and so the key, of U_rival
U_shop == <<"h","t","t","p",":","/","/","r","i","v","a","l",".","i","o","/","s","h","o","p">>

\* "https://blog.net"
U_blog == <<"h","t","t","p","s",":","/","/","b","l","o","g",".","n","e","t">>

KnownUrls == {U_acme, U_rival, U_shop, U_blog}

\* url_to_filename on the URLs of the pipeline, none of which it rejects
FilenameTable == [u \in KnownUrls |-> url_to_filename(u).val]

FilenameOf(u) == FilenameTable[u]

DataKeys == {FilenameOf(u) : u \in KnownUrls}

NoFile == [exists |-> FALSE, text |-> <<>>]

FileOf(t) == [exists |-> TRUE, text |-> t]

\* an existence test that never finds the file
path_exists_Never(files, prefix) == FALSE

\* os.path.exists(filepath)
path_exists(files, prefix) == files[prefix].exists

\* an unlink that leaves the file in place
Unlink_Keeps(files, prefix) == files

\* path.unlink()
Unlink(files, prefix) == [files EXCEPT ![prefix] = NoFile]

\* What a site serves while it is crawled.  A response is
\*   kind "ok" (status 2xx), "not_found" (404), "status_error" (another
\*   status raise_for_status rejects) or "transport_error" (client.get
\*   raises: connection, timeout, TLS);
\*   blank: resp.text is empty or blank; text: what _extract_text finds.
\* An anchor has href (whether its href holds "about", "company" or "who"),
\* same_host, link (the joined URL) and the response of that link.
Resp(kind, blank, text) == [kind |-> kind, blank |-> blank, text |-> text]

Anchor(href, same_host, link, resp) ==
    [href |-> href, same_host |-> same_host, link |-> link, resp |-> resp]

Site(home, anchors) == [home |-> home, anchors |-> anchors]

\* lines 148-165: the anchors of the homepage, from the i-th on
RECURSIVE FollowLinks(_, _, _, _)
FollowLinks(anchors, i, visited, texts) ==
    IF i > Len(anchors) THEN texts
    ELSE LET a == anchors[i]
         IN  IF a.href /\ a.same_host /\ a.link \notin visited
             THEN IF a.resp.kind = "ok" /\ ~a.resp.blank /\ a.resp.text # <<>>
                  THEN FollowLinks(anchors, i + 1, visited \cup {a.link},
                                   Append(texts, a.resp.text))
                  ELSE FollowLinks(anchors, i + 1, visited \cup {a.link}, texts)
             ELSE FollowLinks(anchors, i + 1, visited, texts)

\* lines 145-165: texts holds what the homepage gave
AfterHome(site, texts) ==
    IF Len(texts) < 3
    THEN Ok(FollowLinks(site.anchors, 1, {"/"}, texts))
    ELSE Ok(texts)

\* lines 123-171 for the one priority URL: the list texts, or the exception
\* that leaves _crawl_and_clean_site.  An exception of client.get that is
\* not an HTTPStatusError reaches "except httpx.SSLError": where httpx
\* defines no SSLError, evaluating that clause raises AttributeError.
crawl_texts(site) ==
    CASE site.home.kind = "transport_error" ->
             IF httpx_SSLError THEN Ok(<<>>) ELSE Raise("AttributeError")
      [] site.home.kind = "status_error" -> Ok(<<>>)
      [] site.home.kind = "not_found" -> Ok(<<>>)
      [] OTHER ->
             IF site.home.blank THEN Ok(<<>>)
             ELSE AfterHome(site, IF site.home.text # <<>>
                                  THEN <<site.home.text>> ELSE <<>>)

JoinTexts(r) == IF r.exc # "none" THEN r ELSE Ok(Join(r.val))

crawl_and_clean_site(site) == JoinTexts(crawl_texts(site))

\* whether every fetch of the crawl failed with a network, TLS or HTTP error
EveryFetchFailed(site) == site.home.kind \in {"transport_error", "status_error"}

RECURSIVE ScrapeLoop(_, _, _, _, _)

\* lines 69-81: urls[i] has no file at prefix; text is what its crawl
\* gives, how tells whether every fetch of it failed
ScrapeOne(urls, web, i, files, done, prefix, text, how) ==
    IF text.exc # "none"
    THEN ScrapeLoop(urls, web, i + 1, [files EXCEPT ![prefix] = FileOf(<<>>)],
                    Append(done, [fetch |-> how, wrote |-> "sentinel"]))
    ELSE IF text.val = <<>>
    THEN ScrapeLoop(urls, web, i + 1, files,
                    Append(done, [fetch |-> how, wrote |-> "nothing"]))
    ELSE ScrapeLoop(urls, web, i + 1, [files EXCEPT ![prefix] = FileOf(text.val)],
                    Append(done, [fetch |-> how, wrote |-> "text"]))

\* lines 63-68: skip the url whose file is at prefix
ScrapeUrl(urls, web, i, files, done, prefix) ==
    IF path_exists(files, prefix)
    THEN ScrapeLoop(urls, web, i + 1, files,
                    Append(done, [fetch |-> "none", wrote |-> "nothing"]))
    ELSE ScrapeOne(urls, web, i, files, done, prefix, crawl_and_clean_site(web[i]),
                   IF EveryFetchFailed(web[i]) THEN "failed" ELSE "fetched")

\* lines 62-81: the urls from the i-th on.  web[i] is what urls[i] serves
\* if it is crawled; done[i] records what happened to urls[i].
ScrapeLoop(urls, web, i, files, done) ==
    IF i > Len(urls) THEN [files |-> files, done |-> done]
    ELSE ScrapeUrl(urls, web, i, files, done, FilenameOf(urls[i]))

scrape_websites(b_url, c_urls, web, files) ==
    ScrapeLoop(<<b_url>> \o c_urls, web, 1, files, <<>>)

----------------------------------------------------------------------------
(* The scorer (tfidf_analysis.py)                                          *)

TOP_N == 100

\* a subset of nltk's stopwords.words('english')
stop_words == {w_the, <<"a">>, <<"a","n","d">>, <<"o","f">>, <<"w","h","o">>}

\* str.lower on a character and on a string
LowerChar(c) ==
    IF \E i \in DOMAIN UpperSeq : UpperSeq[i] = c
    THEN LowerSeq[CHOOSE i \in DOMAIN UpperSeq : UpperSeq[i] = c]
    ELSE c

Lower(w) == [i \in DOMAIN w |-> LowerChar(w[i])]

\* str.isalpha
IsAlpha(w) == w # <<>> /\ Range(w) \subseteq AsciiAlpha

OnlyAlpha(w) == SelectSeq(w, LAMBDA c : c \in AsciiAlpha)

\* lines 83-92: lowercase, drop what is neither a letter nor a space,
\* tokenize; a token without a letter disappears
Tokenize(text) ==
    SelectSeq([i \in DOMAIN text |-> OnlyAlpha(Lower(text[i]))], LAMBDA w : w # <<>>)

\* line 95: drop stopwords and business terms
FilterTokens(tokens, business_terms) ==
    SelectSeq(tokens, LAMBDA t : t \notin stop_words /\ t \notin business_terms)

\* the values a caller passes as business_name
PyNone == [kind |-> "none", val |-> <<>>]

\* a str, given by its tokens
PyStr(tokens) == [kind |-> "str", val |-> tokens]

PyList(items) == [kind |-> "list", val |-> items]

\* Python's truth value of a business_name
Truthy(name) == name.kind # "none" /\ name.val # <<>>

StartsWith(w, pat) == Len(w) >= Len(pat) /\ SubSeq(w, 1, Len(pat)) = pat

\* w.replace(pat, '')
RECURSIVE RemoveAll(_, _)
RemoveAll(w, pat) ==
    IF w = <<>> THEN <<>>
    ELSE IF StartsWith(w, pat)
         THEN RemoveAll(Slice(w, Len(pat) + 1, Len(w)), pat)
         ELSE <<w[1]>> \o RemoveAll(Tail(w), pat)

\* ''.join(c if c.isalpha() else ' ' for c in w).split(): the runs of letters
RECURSIVE LetterRuns(_)
LetterRuns(w) ==
    IF w = <<>> THEN {}
    ELSE IF w[1] \in AsciiAlpha
         THEN LET n == FindAny(w, {c \in Range(w) : c \notin AsciiAlpha}, 1)
              IN  {Slice(w, 1, n - 1)} \cup LetterRuns(Slice(w, n, Len(w)))
         ELSE LetterRuns(Tail(w))

\* lines 30 and 33: a token of the name that counts
KeepToken(t) == IsAlpha(t) /\ t \notin stop_words

\* lines 29-36: the clean tokens, and each pair of neighbours, with a space
\* and without
CleanTerms(clean_tokens) ==
    Range(clean_tokens)
    \cup {clean_tokens[i] \o <<" ">> \o clean_tokens[i+1] : i \in 1..(Len(clean_tokens) - 1)}
    \cup {clean_tokens[i] \o clean_tokens[i+1] : i \in 1..(Len(clean_tokens) - 1)}

\* lines 25-36: the terms of a name that is a str
NameTerms(name) ==
    CleanTerms(SelectSeq([i \in DOMAIN name.val |-> Lower(name.val[i])], KeepToken))

\* lines 45-50: the runs of letters of the name, and its letters together
DomainTerms(name) ==
    {q \in LetterRuns(name) : q \notin stop_words}
    \cup (IF OnlyAlpha(name) # <<>> THEN {OnlyAlpha(name)} ELSE {})

\* line 43: domain.replace('www.', '').split('.')[0]
FirstLabel(stripped) == Slice(stripped, 1, FindAny(stripped, {"."}, 1) - 1)

\* lines 39-50: the terms of the URL
UrlTermsOf(u) ==
    DomainTerms(FirstLabel(RemoveAll(Lower(urlparse(u).val.netloc), <<"w","w","w",".">>)))

\* the terms of the URLs of the pipeline, none of which urlparse rejects
UrlTermsTable == [u \in KnownUrls |-> UrlTermsOf(u)]

UrlTerms(u) == UrlTermsTable[u]

\* _get_business_terms: name.lower() exists for a str only
get_business_terms(name, u) ==
    IF Truthy(name) /\ name.kind # "str" THEN Raise("AttributeError")
    ELSE Ok((IF Truthy(name) THEN NameTerms(name) ELSE {})
            \cup (IF u # <<>> THEN UrlTerms(u) ELSE {}))

\* The order of characters, and of strings, that sorts the vocabulary
CharOrder == <<" ">> \o DigitSeq \o UpperSeq \o <<"_">> \o LowerSeq

CharOrd(c) == Find(CharOrder, c)

LexLess(a, b) ==
    \E k \in 1..(Len(a) + 1) :
        /\ k <= Len(b)
        /\ \A j \in 1..(k - 1) : a[j] = b[j]
        /\ (k = Len(a) + 1 \/ CharOrd(a[k]) < CharOrd(b[k]))

RECURSIVE SortedTerms(_)
SortedTerms(S) ==
    IF S = {} THEN <<>>
    ELSE LET m == CHOOSE x \in S : \A y \in S \ {x} : LexLess(x, y)
         IN  <<m>> \o SortedTerms(S \ {m})

\* the unigrams and bigrams of a document, ngram_range=(1, 2)
NGrams(tokens) ==
    tokens \o [i \in 1..(Len(tokens) - 1) |-> tokens[i] \o <<" ">> \o tokens[i+1]]

Count(x, seq) == Cardinality({i \in DOMAIN seq : seq[i] = x})

\* TfidfVectorizer.fit_transform on the two documents.  The library is not
\* part of the program: its vocabulary is the sorted n-grams of the corpus,
\* and the weight of an n-gram in a document is taken to be its frequency
\* among the n-grams of the document, in thousandths, which is positive
\* exactly for the n-grams of the document.
Weight(term, grams) ==
    IF grams = <<>> THEN 0 ELSE (1000 * Count(term, grams)) \div Len(grams)

Vectorize(business_text, competitor_doc) ==
    LET terms == SortedTerms(Range(NGrams(business_text)) \cup Range(NGrams(competitor_doc)))
    IN  [terms |-> terms,
         business_scores |-> [i \in DOMAIN terms |-> Weight(terms[i], NGrams(business_text))],
         competitor_scores |-> [i \in DOMAIN terms |-> Weight(terms[i], NGrams(competitor_doc))]]

\* lines 168-177: the dict of the terms with a positive score
PositiveTerms(terms, scores) ==
    LET all == [i \in DOMAIN terms |-> [term |-> terms[i], score |-> scores[i]]]
    IN  SelectSeq(all, LAMBDA e : e.score > 0)

\* sorted(items, key=score, reverse=True): stable, an item goes behind the
\* items with a greater score and behind the earlier items with its score
SortDesc(items) ==
    LET n == Len(items)
        place == [i \in 1..n |->
                     Cardinality({j \in 1..n : items[j].score > items[i].score})
                     + Cardinality({j \in 1..i : items[j].score = items[i].score})]
    IN  [k \in 1..n |-> items[CHOOSE i \in 1..n : place[i] = k]]

\* a top-N that cuts the list without sorting it
TopTerms_Unsorted(terms, scores) ==
    LET items == PositiveTerms(terms, scores)
    IN  Slice(items, 1, IF Len(items) < TOP_N THEN Len(items) ELSE TOP_N)

\* lines 168-185: one score map
TopTerms(terms, scores) ==
    LET items == SortDesc(PositiveTerms(terms, scores))
    IN  Slice(items, 1, IF Len(items) < TOP_N THEN Len(items) ELSE TOP_N)

NoJson == [exists |-> FALSE, map |-> <<>>]

JsonOf(m) == [exists |-> TRUE, map |-> m]

\* the outcome of a compute_tfidf call: the exception and its message, the
\* files it leaves, whether it wrote the score maps, and its list skipped
Scored(exc, msg, files, json, wrote, skipped) ==
    [exc |-> exc, msg |-> msg, files |-> files, json |-> json,
     wrote |-> wrote, skipped |-> skipped]

RECURSIVE CompetitorLoop(_, _, _, _, _, _)

\* lines 114-136: the competitor whose file is at prefix and holds tokens
\* once it is filtered
CompetitorFile(c_urls, business_terms, i, files, competitor_texts, skipped, prefix, tokens) ==
    IF ~files[prefix].exists
    THEN CompetitorLoop(c_urls, business_terms, i + 1, files,
                        competitor_texts, Append(skipped, c_urls[i]))
    ELSE IF files[prefix].text = <<>> \/ tokens = <<>>
    THEN CompetitorLoop(c_urls, business_terms, i + 1, Unlink(files, prefix),
                        competitor_texts, Append(skipped, c_urls[i]))
    ELSE CompetitorLoop(c_urls, business_terms, i + 1, files,
                        Append(competitor_texts, tokens), skipped)

CompetitorAt(c_urls, business_terms, i, files, competitor_texts, skipped, prefix) ==
    CompetitorFile(c_urls, business_terms, i, files, competitor_texts, skipped, prefix,
                   FilterTokens(Tokenize(files[prefix].text), business_terms))

\* lines 110-136: the competitors from the i-th on
CompetitorLoop(c_urls, business_terms, i, files, competitor_texts, skipped) ==
    IF i > Len(c_urls)
    THEN [files |-> files, competitor_texts |-> competitor_texts, skipped |-> skipped]
    ELSE CompetitorAt(c_urls, business_terms, i, files, competitor_texts, skipped,
                      FilenameOf(c_urls[i]))

\* tfidf_matrix.nnz
Nnz(v) ==
    Cardinality({i \in DOMAIN v.terms : v.business_scores[i] # 0})
    + Cardinality({i \in DOMAIN v.terms : v.competitor_scores[i] # 0})

\* lines 159-202 on the matrix v
SaveScores(v, files, json, skipped) ==
    IF Nnz(v) = 0
    THEN Scored("ValueError", "TF-IDF computation failed", files, json, FALSE, skipped)
    ELSE Scored("none", "", files,
                [business |-> JsonOf(TopTerms(v.terms, v.business_scores)),
                 competitors |-> JsonOf(TopTerms(v.terms, v.competitor_scores))],
                TRUE, skipped)

\* lines 145-202, once both documents exist
VectorizeAndSave(business_text, competitor_texts, files, json, skipped) ==
    SaveScores(Vectorize(business_text, Join(competitor_texts)), files, json, skipped)

\* lines 138-202: c is what the loop over the competitors left
ScoreCompetitors(tokens, c, json) ==
    IF c.competitor_texts = <<>>
    THEN Scored("ValueError", "No valid competitor texts found after preprocessing",
                c.files, json, FALSE, c.skipped)
    ELSE VectorizeAndSave(tokens, c.competitor_texts, c.files, json, c.skipped)

\* lines 81-104: the business file at business_prefix, tokens once filtered
ScoreBusiness(c_urls, business_terms, business_prefix, tokens, files, json) ==
    IF ~files[business_prefix].exists
    THEN Scored("FileNotFoundError", "Business file not found", files, json, FALSE, <<>>)
    ELSE IF files[business_prefix].text = <<>>
    THEN Scored("ValueError", "Business file is empty",
                Unlink(files, business_prefix), json, FALSE, <<>>)
    ELSE IF tokens = <<>>
    THEN Scored("ValueError", "No valid content after filtering",
                Unlink(files, business_prefix), json, FALSE, <<>>)
    ELSE ScoreCompetitors(tokens,
                          CompetitorLoop(c_urls, business_terms, 1, files, <<>>, <<>>),
                          json)

\* lines 71-79: bt is the outcome of _get_business_terms
ScoreWith(bt, c_urls, business_prefix, files, json) ==
    IF bt.exc # "none"
    THEN Scored(bt.exc, "", files, json, FALSE, <<>>)
    ELSE ScoreBusiness(c_urls, bt.val, business_prefix,
                       FilterTokens(Tokenize(files[business_prefix].text), bt.val),
                       files, json)

\* compute_tfidf(business_url, competitor_urls, business_name)
compute_tfidf(b_url, c_urls, business_name, files, json) ==
    ScoreWith(get_business_terms(business_name, b_url), c_urls, FilenameOf(b_url),
              files, json)

----------------------------------------------------------------------------
(* The renderer (generate_wordclouds.py)                                   *)

ImageKinds == {"business", "competitors", "difference_ab", "difference_ba"}

\* a _create_wordcloud that draws the empty map too
create_wordcloud_Always(tfidf_dict, refused) == ~refused

\* _create_wordcloud: None (FALSE) for an empty map, and for a map whose
\* layout WordCloud.generate_from_frequencies refuses with ValueError
\* (lines 103-109); which maps it refuses is the library's matter
create_wordcloud(tfidf_dict, refused) == tfidf_dict # <<>> /\ ~refused

\* lines 53-56 and 67-72: the four word clouds, layout naming the images
\* that the library refuses
wordclouds_to_save(a, b, layout) ==
    [business |-> create_wordcloud(a, "business" \in layout),
     competitors |-> create_wordcloud(b, "competitors" \in layout),
     difference_ab |-> create_wordcloud(compute_difference(a, b), "difference_ab" \in layout),
     difference_ba |-> create_wordcloud(compute_difference(b, a), "difference_ba" \in layout)]

\* lines 74-85: the images written, and those under output/ afterwards
SaveImages(wcs, png) ==
    [exc |-> "none",
     png |-> png \cup {k \in DOMAIN wcs : wcs[k]},
     written |-> {k \in DOMAIN wcs : wcs[k]}]

\* generate_wordclouds(business_url)
generate_wordclouds(json, png, layout) ==
    IF ~json.business.exists \/ ~json.competitors.exists
    THEN [exc |-> "FileNotFoundError", png |-> png, written |-> {}]
    ELSE SaveImages(wordclouds_to_save(json.business.map, json.competitors.map, layout),
                    png)

----------------------------------------------------------------------------
(* Spec: the pipeline, run from the form of app.py (main) and, for the     *)
(* scorer, from the command line of tfidf_analysis.py                      *)

MAX_COMPETITORS == 5

\* the competitor lists of the form: one site, two sites, two URLs of one site
CompetitorLists == {<<U_rival>>, <<U_rival, U_blog>>, <<U_shop, U_rival>>}

\* what a site may serve when it is crawled: the homepage is unreachable,
\* answers 500, answers 404, is blank, holds only words that the scorer
\* filters, or holds text and links to an about page
Unreachable == Site(Resp("transport_error", TRUE, <<>>), <<>>)

Web ==
    { Unreachable,
      Site(Resp("status_error", TRUE, <<>>), <<>>),
      Site(Resp("not_found", TRUE, <<>>), <<>>),
      Site(Resp("ok", TRUE, <<>>), <<>>),
      Site(Resp("ok", FALSE, <<w_the, w_Acme, w_42>>),
           <<Anchor(TRUE, TRUE, "/about", Resp("status_error", TRUE, <<>>)),
             Anchor(TRUE, FALSE, "//other/about", Resp("ok", FALSE, <<w_web>>))>>),
      Site(Resp("ok", FALSE, <<w_seo>>),
           <<Anchor(FALSE, TRUE, "/shop", Resp("ok", FALSE, <<w_42>>)),
             Anchor(TRUE, TRUE, "/who", Resp("ok", FALSE, <<w_web>>))>>) }

\* the fields between the commas of the filter input
FilterInputs == { << <<>> >>, << <<"S","e","o">>, <<>> >> }

\* the --business-name of the command line
CliNames == {PyNone, PyStr(<<<<"S","e","o">>, w_web>>)}

NoCrawl == [called |-> FALSE, cached |-> FALSE, done |-> <<>>]

NoScore == [called |-> FALSE, name |-> PyNone, before |-> <<>>, cached |-> FALSE,
            exc |-> "none", msg |-> "", wrote |-> FALSE, skipped |-> <<>>]

Init ==
    /\ httpx_SSLError \in BOOLEAN
    /\ business_url = U_acme
    /\ competitor_urls \in CompetitorLists
    /\ filter_words = <<>>
    /\ stage = "idle"
    /\ ui_error = "none"
    /\ site_files = [k \in DataKeys |-> NoFile]
    /\ json_files = [business |-> NoJson, competitors |-> NoJson]
    /\ png_files = {}
    /\ crawled = NoCrawl
    /\ scored = NoScore
    /\ sentinels = {}
    /\ KeyIdle
    /\ DiffIdle
    /\ TopIdle
    /\ CrawlIdle
    /\ LogIdle
    /\ RenderIdle

Urls == <<business_url>> \o competitor_urls

\* every site text file of the URLs and both score maps are on disk
Cached ==
    /\ \A i \in DOMAIN Urls : site_files[FilenameOf(Urls[i])].exists
    /\ json_files.business.exists
    /\ json_files.competitors.exists

\* main, lines 120-145: the button is pressed and the inputs are accepted
MainStart ==
    /\ stage \in {"idle", "shown", "failed"}
    /\ business_url # <<>>
    /\ competitor_urls # <<>>
    /\ Len(competitor_urls) <= MAX_COMPETITORS
    /\ \E input \in FilterInputs :
           filter_words' =
               LET words == SelectSeq(input, LAMBDA f : f # <<>>)
               IN  [i \in DOMAIN words |-> Lower(words[i])]
    /\ stage' = "collect"
    /\ ui_error' = "none"
    /\ crawled' = NoCrawl
    /\ scored' = NoScore
    /\ UNCHANGED <<httpx_SSLError, business_url, competitor_urls, site_files,
                   json_files, png_files, sentinels, keyVars, diffVars, topVars, crawlVars,
                   logVars, renderVars>>

\* the state a scrape_websites call leaves, r being what it did
Collected(r) ==
    /\ site_files' = r.files
    /\ crawled' = [called |-> TRUE, cached |-> Cached, done |-> r.done]
    /\ sentinels' = sentinels \cup
           {Urls[i] : i \in {j \in DOMAIN Urls : r.done[j].wrote = "sentinel"}}

\* main, line 150: scrape_websites(business_url, competitor_urls)
MainCollect ==
    /\ stage = "collect"
    /\ \E web \in [DOMAIN Urls -> Web] :
           \* what a site serves matters only if its file is not there yet
           /\ \A i \in DOMAIN Urls :
                  path_exists(site_files, FilenameOf(Urls[i])) => web[i] = Unreachable
           /\ Collected(scrape_websites(business_url, competitor_urls, web, site_files))
    /\ stage' = "score"
    /\ UNCHANGED <<httpx_SSLError, business_url, competitor_urls, filter_words,
                   ui_error, json_files, png_files, scored, keyVars, diffVars, topVars, crawlVars,
                   logVars, renderVars>>

\* main, lines 147-225: the statements of the try block run in order, and
\* an exception leaves the block for the handler of line 221
NextStage_IgnoresError(exc, next) == next

NextStage(exc, next) == IF exc = "none" THEN next ELSE "failed"

\* the state a compute_tfidf call leaves, r being its outcome
ScoredAs(name, r) ==
    /\ site_files' = r.files
    /\ json_files' = r.json
    /\ scored' = [called |-> TRUE, name |-> name, before |-> site_files,
                  cached |-> Cached, exc |-> r.exc, msg |-> r.msg,
                  wrote |-> r.wrote, skipped |-> r.skipped]

Score(name) ==
    ScoredAs(name, compute_tfidf(business_url, competitor_urls, name, site_files, json_files))

\* main, line 154: compute_tfidf(business_url, competitor_urls, filter_words)
MainScore ==
    /\ stage = "score"
    /\ Score(PyList(filter_words))
    /\ stage' = NextStage(scored'.exc, "render")
    /\ ui_error' = scored'.exc
    /\ UNCHANGED <<httpx_SSLError, business_url, competitor_urls, filter_words,
                   png_files, crawled, sentinels, keyVars, diffVars, topVars, crawlVars,
                   logVars, renderVars>>

\* the state a generate_wordclouds call leaves, r being its outcome
Rendered(r) ==
    /\ png_files' = r.png
    /\ stage' = NextStage(r.exc, "shown")
    /\ ui_error' = r.exc

\* main, lines 158-219: generate_wordclouds(business_url), then the images
MainRender ==
    /\ stage = "render"
    /\ \E layout \in SUBSET ImageKinds :
           Rendered(generate_wordclouds(json_files, png_files, layout))
    /\ UNCHANGED <<httpx_SSLError, business_url, competitor_urls, filter_words,
                   site_files, json_files, crawled, scored, sentinels,
                   keyVars, diffVars, topVars, crawlVars,
                   logVars, renderVars>>

\* tfidf_analysis.py run as a script, between two runs of the form
TfidfMain ==
    /\ stage \in {"idle", "shown", "failed"}
    /\ \E name \in CliNames : Score(name)
    /\ UNCHANGED <<httpx_SSLError, business_url, competitor_urls, filter_words,
                   stage, ui_error, png_files, crawled, sentinels,
                   keyVars, diffVars, topVars, crawlVars,
                   logVars, renderVars>>

Next == MainStart \/ MainCollect \/ MainScore \/ MainRender \/ TfidfMain

Spec == Init /\ [][Next]_vars

----------------------------------------------------------------------------
(* SpecTopN: the two score maps of compute_tfidf, lines 168-195, over      *)
(* vectorizer outputs longer than TOP_N                                    *)

MaxFeatures == 110

MaxStride == 3

MaxMod == 4

\* the i-th name of a sorted vocabulary: "aa", "ab", ..
FeatureName(i) ==
    <<LowerSeq[((i - 1) \div 26) + 1], LowerSeq[((i - 1) % 26) + 1]>>

FeatureCounts == {0, 1, TOP_N - 1, TOP_N, TOP_N + 1, MaxFeatures}

\* rows of scores with zeros, ties, and rises and falls along the vocabulary
ScoreRows(n) ==
    {[i \in 1..n |-> (stride * i + shift) % mod] :
         stride \in 0..MaxStride, shift \in 0..1, mod \in 1..MaxMod}

Reverse(row) == [i \in DOMAIN row |-> row[Len(row) + 1 - i]]

TopInit ==
    /\ \E n \in FeatureCounts :
           /\ feature_names = [i \in 1..n |-> FeatureName(i)]
           /\ business_scores \in ScoreRows(n)
           /\ competitor_scores \in {business_scores, Reverse(business_scores)}
    /\ business_tfidf = <<>>
    /\ competitor_tfidf = <<>>
    /\ tpc = "in"
    /\ KeyIdle
    /\ DiffIdle
    /\ PipeIdle
    /\ CrawlIdle
    /\ LogIdle
    /\ RenderIdle

\* lines 168-195
SaveTopTerms ==
    /\ tpc = "in"
    /\ business_tfidf' = TopTerms(feature_names, business_scores)
    /\ competitor_tfidf' = TopTerms(feature_names, competitor_scores)
    /\ tpc' = "done"
    /\ UNCHANGED <<feature_names, business_scores, competitor_scores, keyVars,
                   diffVars, pipeVars, crawlVars, logVars, renderVars>>

TopNext == SaveTopTerms

SpecTopN == TopInit /\ [][TopNext]_vars

NonIncreasing(m) == \A i \in 1..(Len(m) - 1) : m[i].score >= m[i + 1].score

\* C4: every score map written by compute_tfidf, business and pooled
\* competitors, has at most 100 entries, in non-increasing order of weight.
C4_AtMostTopNDescending ==
    tpc = "done" =>
        /\ Len(business_tfidf) <= TOP_N
        /\ NonIncreasing(business_tfidf)
        /\ Len(competitor_tfidf) <= TOP_N
        /\ NonIncreasing(competitor_tfidf)

\* more than TOP_N terms had a positive score, in an order that was not
\* descending, and TOP_N of them were written
C4_Witness ==
    /\ tpc = "done"
    /\ Len(PositiveTerms(feature_names, business_scores)) > TOP_N
    /\ ~NonIncreasing(PositiveTerms(feature_names, business_scores))
    /\ Len(business_tfidf) = TOP_N
    /\ business_tfidf[1].score > business_tfidf[TOP_N].score

----------------------------------------------------------------------------
(* SpecCrawl: the page loop of _crawl_and_clean_site on one site, over     *)
(* homepages of every kind with up to MaxAnchors anchors                   *)

MaxAnchors == 4

\* the homepage: unreachable, answering 500 or 404, blank, without visible
\* text, or with text
Homes ==
    { Resp("transport_error", TRUE, <<>>),
      Resp("status_error", TRUE, <<>>),
      Resp("not_found", TRUE, <<>>),
      Resp("ok", TRUE, <<>>),
      Resp("ok", FALSE, <<>>),
      Resp("ok", FALSE, <<w_seo>>) }

\* the anchors of a homepage: three pages of the site whose href matches,
\* one of them more that fails, a page whose href does not match, and a
\* matching page of another host
AnchorKinds ==
    { Anchor(TRUE, TRUE, "/about", Resp("ok", FALSE, <<w_web>>)),
      Anchor(TRUE, TRUE, "/company", Resp("ok", FALSE, <<w_acme>>)),
      Anchor(TRUE, TRUE, "/who", Resp("ok", FALSE, <<w_the>>)),
      Anchor(TRUE, TRUE, "/about-us", Resp("status_error", TRUE, <<>>)),
      Anchor(FALSE, TRUE, "/shop", Resp("ok", FALSE, <<w_42>>)),
      Anchor(TRUE, FALSE, "//other/about", Resp("ok", FALSE, <<w_web>>)) }

AnchorLists == UNION {[1..n -> AnchorKinds] : n \in 0..MaxAnchors}

CrawlInit ==
    /\ served \in {Site(home, anchors) : home \in Homes, anchors \in AnchorLists}
    /\ crawl = <<>>
    /\ cpc = "in"
    /\ httpx_SSLError \in BOOLEAN
    /\ business_url = <<>>
    /\ competitor_urls = <<>>
    /\ filter_words = <<>>
    /\ stage = "idle"
    /\ ui_error = "none"
    /\ site_files = <<>>
    /\ json_files = <<>>
    /\ png_files = {}
    /\ crawled = <<>>
    /\ scored = <<>>
    /\ sentinels = {}
    /\ KeyIdle
    /\ DiffIdle
    /\ TopIdle
    /\ LogIdle
    /\ RenderIdle

\* lines 123-171
Crawl ==
    /\ cpc = "in"
    /\ crawl' = crawl_texts(served)
    /\ cpc' = "done"
    /\ UNCHANGED <<served, keyVars, diffVars, pipeVars, topVars, logVars, renderVars>>

CrawlNext == Crawl

SpecCrawl == CrawlInit /\ [][CrawlNext]_vars

\* C11: the list of text blocks that the crawl of one site returns never
\* holds more than 3 blocks, whatever the number of matching same-host
\* links of the homepage.
C11_AtMostThreeBlocks ==
    (cpc = "done" /\ crawl.exc = "none") => Len(crawl.val) <= 3

\* the anchors that the loop of lines 148-165 fetches: matching, same host
Followed(anchors) ==
    {i \in DOMAIN anchors : anchors[i].href /\ anchors[i].same_host}

\* what the code keeps to: the homepage and each distinct followed link
\* give at most one block
C11_BlocksBoundedByLinks ==
    (cpc = "done" /\ crawl.exc = "none") =>
        Len(crawl.val)
            <= 1 + Cardinality({served.anchors[i].link : i \in Followed(served.anchors)})

----------------------------------------------------------------------------
(* SpecLog: log_warning (scrape_websites.py, lines 26-38), called one call *)
(* after the other up to MaxCalls times.  A message is a sequence of       *)
(* pieces, "%s" being the conversion that takes the next argument.         *)

MAX_SIMILAR_WARNINGS == 3

MaxCalls == 6

\* message % args from the i-th piece and the j-th argument on
RECURSIVE FormatFrom(_, _, _, _, _)
FormatFrom(message, args, i, j, out) ==
    IF i > Len(message)
    THEN IF j <= Len(args) THEN Raise("TypeError") ELSE Ok(out)
    ELSE IF message[i] # "%s"
    THEN FormatFrom(message, args, i + 1, j, Append(out, message[i]))
    ELSE IF j > Len(args)
    THEN Raise("TypeError")
    ELSE FormatFrom(message, args, i + 1, j + 1, Append(out, args[j]))

\* line 32: key = message % args if args else message
format_key(message, args) ==
    IF args # <<>> THEN FormatFrom(message, args, 1, 1, <<>>) ELSE Ok(message)

\* warning_counts[key] of a defaultdict(int)
CountOf(counts, k) == IF k \in DOMAIN counts THEN counts[k] ELSE 0

\* a limit that lets the count pass MAX_SIMILAR_WARNINGS
below_limit_Inclusive(count) == count <= MAX_SIMILAR_WARNINGS

\* line 33
below_limit(count) == count < MAX_SIMILAR_WARNINGS

\* lines 35-38: the record handed to logging.warning at the count reached
WarningText(k, count) ==
    [key |-> k,
     text |-> IF count = MAX_SIMILAR_WARNINGS
              THEN Append(k, "(suppressing further similar warnings)")
              ELSE k]

\* lines 33-38 for the key k, whose count was count
log_warning_key(k, count) ==
    IF below_limit(count)
    THEN /\ warning_counts' =
                [x \in DOMAIN warning_counts \cup {k} |->
                    IF x = k THEN count + 1 ELSE warning_counts[x]]
         /\ emitted' = Append(emitted, WarningText(k, count + 1))
    ELSE /\ warning_counts' =
                [x \in DOMAIN warning_counts \cup {k} |->
                    IF x = k THEN count ELSE warning_counts[x]]
         /\ emitted' = emitted

\* the messages of lines 167-171, and one that comes formatted
LogMessages ==
    { <<"Error fetching", "%s", ":", "%s">>,
      <<"SSL error for", "%s", ":", "%s">>,
      <<"Error fetching", "u1", ":", "timeout">> }

LogArgs == {<<>>, <<"u1", "timeout">>, <<"u2", "timeout">>}

LogInit ==
    /\ warning_counts = <<>>
    /\ emitted = <<>>
    /\ calls = <<>>
    /\ KeyIdle
    /\ DiffIdle
    /\ PipeIdle
    /\ TopIdle
    /\ CrawlIdle
    /\ RenderIdle

\* log_warning(message, *args), for the calls whose message takes its args
LogWarning(message, args) ==
    /\ Len(calls) < MaxCalls
    /\ format_key(message, args).exc = "none"
    /\ log_warning_key(format_key(message, args).val,
                       CountOf(warning_counts, format_key(message, args).val))
    /\ calls' = Append(calls, format_key(message, args).val)
    /\ UNCHANGED <<keyVars, diffVars, pipeVars, topVars, crawlVars, renderVars>>

LogNext == \E message \in LogMessages, args \in LogArgs : LogWarning(message, args)

SpecLog == LogInit /\ [][LogNext]_vars

Min(a, b) == IF a <= b THEN a ELSE b

Emitted(k) == Cardinality({i \in DOMAIN emitted : emitted[i].key = k})

\* C12: for every formatted message, over any sequence of log_warning
\* calls, at most 3 warnings are emitted and its count never exceeds 3;
\* both depend on the calls with that message only: after n of them, count
\* and warnings are the smaller of n and 3.
C12_WarningsCappedPerMessage ==
    /\ \A k \in DOMAIN warning_counts : k \in Range(calls)
    /\ \A k \in Range(calls) :
           /\ CountOf(warning_counts, k) <= MAX_SIMILAR_WARNINGS
           /\ Emitted(k) <= MAX_SIMILAR_WARNINGS
           /\ CountOf(warning_counts, k) = Min(Count(k, calls), MAX_SIMILAR_WARNINGS)
           /\ Emitted(k) = Min(Count(k, calls), MAX_SIMILAR_WARNINGS)

\* a message was logged more often than the limit, with calls of another
\* message in between, and exactly 3 warnings were emitted for it
C12_Witness ==
    \E k \in Range(calls) :
        /\ Count(k, calls) > MAX_SIMILAR_WARNINGS
        /\ calls[Len(calls)] = k
        /\ \E i \in 2..(Len(calls) - 1) : calls[i] # k /\ calls[i - 1] = k
        /\ Emitted(k) = MAX_SIMILAR_WARNINGS
        /\ warning_counts[k] = MAX_SIMILAR_WARNINGS

----------------------------------------------------------------------------
(* SpecRender: generate_wordclouds on every pair of score maps over        *)
(* DiffTerms with the scores RenderScores, present or missing on disk,     *)
(* and every set of images whose layout the library refuses                *)

MaxRenderScore == 3

\* scores from 0.01 up, in steps that put the maps on both sides of the
\* significance factor
RenderScores == {DIFF_THRESHOLD * (2 * k - 1) : k \in 1..MaxRenderScore}

RenderMaps ==
    UNION {{[i \in DOMAIN ts |-> [term |-> ts[i], score |-> f[i]]] :
               f \in [DOMAIN ts -> RenderScores]} : ts \in TermOrdersB}

RenderInit ==
    /\ wc_json \in [business : {NoJson} \cup {JsonOf(m) : m \in RenderMaps},
                    competitors : {NoJson} \cup {JsonOf(m) : m \in RenderMaps}]
    /\ wc_layout \in SUBSET ImageKinds
    /\ wc_out = <<>>
    /\ rpc = "in"
    /\ KeyIdle
    /\ DiffIdle
    /\ PipeIdle
    /\ TopIdle
    /\ CrawlIdle
    /\ LogIdle

\* generate_wordclouds(business_url) with no image under output/ before
Render ==
    /\ rpc = "in"
    /\ wc_out' = generate_wordclouds(wc_json, {}, wc_layout)
    /\ rpc' = "done"
    /\ UNCHANGED <<wc_json, wc_layout, keyVars, diffVars, pipeVars, topVars,
                   crawlVars, logVars>>

RenderNext == Render

SpecRender == RenderInit /\ [][RenderNext]_vars

\* the map behind each image
ImageMap(k) ==
    CASE k = "business" -> wc_json.business.map
      [] k = "competitors" -> wc_json.competitors.map
      [] k = "difference_ab" ->
             compute_difference(wc_json.business.map, wc_json.competitors.map)
      [] k = "difference_ba" ->
             compute_difference(wc_json.competitors.map, wc_json.business.map)

BothMapsOnDisk == wc_json.business.exists /\ wc_json.competitors.exists

\* C13 as stated: an empty map causes only its image to be skipped: no
\* error is raised, no file is written for it, and every non-empty map
\* among the four gets its image saved.
C13_OnlyEmptyMapsSkipped ==
    (rpc = "done" /\ BothMapsOnDisk) =>
        /\ wc_out.exc = "none"
        /\ wc_out.written = {k \in ImageKinds : ImageMap(k) # <<>>}

\* C13 amended: no error is raised; an image is skipped, and no file
\* written for it, exactly when its map is empty or WordCloud refuses its
\* layout with ValueError; every other image among the four is saved.
C13_EmptyOrRefusedSkipped ==
    (rpc = "done" /\ BothMapsOnDisk) =>
        /\ wc_out.exc = "none"
        /\ wc_out.written = {k \in ImageKinds : ImageMap(k) # <<>> /\ k \notin wc_layout}
        /\ wc_out.png = wc_out.written

\* one difference map is empty and its image skipped, the layout of a
\* non-empty map is refused and its image skipped, the other two are saved
C13_Witness ==
    /\ rpc = "done" /\ BothMapsOnDisk
    /\ ImageMap("difference_ba") = <<>>
    /\ ImageMap("difference_ab") # <<>>
    /\ wc_layout = {"difference_ab"}
    /\ wc_out.written = {"business", "competitors"}

----------------------------------------------------------------------------
(* The collector's cache                                                   *)

\* a step of scrape_websites
CollectStep == stage = "collect" /\ stage' = "score"

\* a second call of scrape_websites, made on the files the first one left;
\* whether it fetches a site does not depend on what the site would serve
SecondCall(files) ==
    scrape_websites(business_url, competitor_urls,
                    [i \in DOMAIN Urls |-> Unreachable], files)

\* C1: for a URL whose every fetch fails, scrape_websites leaves an empty
\* file site-<key>.txt on disk, and a second call of scrape_websites with
\* the same URL performs no fetch for it.
C1_FailedFetchLeavesEmptyFile ==
    [][CollectStep =>
         \A i \in DOMAIN Urls :
             crawled'.done[i].fetch = "failed" =>
                 /\ site_files'[FilenameOf(Urls[i])] = FileOf(<<>>)
                 /\ SecondCall(site_files').done[i].fetch = "none"]_vars

\* C2: once scrape_websites has written an empty sentinel file for a site,
\* no later run of the pipeline fetches that site again.
C2_SentinelNeverRefetched ==
    [][CollectStep =>
         \A i \in DOMAIN Urls :
             Urls[i] \in sentinels => crawled'.done[i].fetch = "none"]_vars

NoFetch == \A i \in DOMAIN crawled.done : crawled.done[i].fetch = "none"

\* C3 as stated: in a run that finds the site text files and both score maps
\* on disk, the collector performs no fetch and the scorer neither
\* recomputes nor rewrites the score maps.
C3_RerunSkipsBothStages ==
    /\ (crawled.called /\ crawled.cached) => NoFetch
    /\ (scored.called /\ scored.cached) => ~scored.wrote

\* C3 amended: in a run that finds the site text files and both score maps
\* on disk, the collector performs no fetch and changes no file; the scorer
\* does not skip: whenever it returns normally it has recomputed and
\* rewritten both score maps.
C3_RerunSkipsCollectorOnly ==
    /\ (crawled.called /\ crawled.cached) =>
           /\ NoFetch
           /\ \A i \in DOMAIN crawled.done : crawled.done[i].wrote = "nothing"
    /\ (scored.called /\ scored.cached /\ scored.exc = "none") =>
           /\ scored.wrote
           /\ json_files.business.exists
           /\ json_files.competitors.exists

\* a second run of the form that found everything on disk: no site was
\* fetched, and the score maps were written again
C3_Witness ==
    /\ stage = "render"
    /\ crawled.called /\ crawled.cached /\ NoFetch
    /\ scored.called /\ scored.cached /\ scored.wrote

----------------------------------------------------------------------------
(* The scorer's input validation                                           *)

\* the words a caller means to filter: those of the URL and of business_name
IntendedTerms(name) ==
    UrlTerms(business_url)
    \cup (IF name.kind = "list" THEN {Lower(name.val[i]) : i \in DOMAIN name.val}
          ELSE IF name.kind = "str" THEN NameTerms(name) ELSE {})

\* the file has text, and filtering leaves none of it
OnlyFiltered(file, terms) ==
    /\ file.exists
    /\ file.text # <<>>
    /\ FilterTokens(Tokenize(file.text), terms) = <<>>

\* the file has text that survives filtering
Usable(file, terms) ==
    /\ file.exists
    /\ FilterTokens(Tokenize(file.text), terms) # <<>>

BusinessKey == FilenameOf(business_url)

CompetitorKeys == {FilenameOf(competitor_urls[i]) : i \in DOMAIN competitor_urls}

AllOnlyFiltered ==
    \A k \in {BusinessKey} \cup CompetitorKeys :
        OnlyFiltered(scored.before[k], IntendedTerms(scored.name))

\* C8 as stated: when the business file and the competitor files each hold
\* only stopwords or filtered terms, compute_tfidf raises a descriptive
\* error, writes no score map, and deletes every one of these files.
C8_AllEmptiedFilesDeleted ==
    (scored.called /\ AllOnlyFiltered) =>
        /\ scored.exc = "ValueError"
        /\ ~scored.wrote
        /\ \A k \in {BusinessKey} \cup CompetitorKeys : ~site_files[k].exists

\* C8 amended: in that case compute_tfidf raises and writes no score map.
\* It raises the ValueError "No valid content after filtering" and deletes
\* the business file, and no other: the competitor files are not read and
\* stay as they were.  Only when business_name is a non-empty list does it
\* raise AttributeError instead, before it reads or deletes any file.
C8_BusinessFileDeleted ==
    (scored.called /\ AllOnlyFiltered) =>
        /\ ~scored.wrote
        /\ \A k \in DataKeys \ {BusinessKey} : site_files[k] = scored.before[k]
        /\ IF scored.name.kind = "list" /\ scored.name.val # <<>>
           THEN /\ scored.exc = "AttributeError"
                /\ site_files = scored.before
           ELSE /\ scored.exc = "ValueError"
                /\ scored.msg = "No valid content after filtering"
                /\ ~site_files[BusinessKey].exists

\* every file held only filtered words, the scorer raised for the business
\* file and deleted it, and a competitor file is still on disk
C8_Witness ==
    /\ scored.called /\ AllOnlyFiltered
    /\ scored.msg = "No valid content after filtering"
    /\ ~site_files[BusinessKey].exists
    /\ \E k \in CompetitorKeys : site_files[k].exists /\ site_files[k].text # <<>>

Survives(u) == Usable(scored.before[FilenameOf(u)], IntendedTerms(scored.name))

\* what C9 says of a call that found a valid business file
CompetitorsHandledAsSpecified ==
    /\ scored.skipped = SelectSeq(competitor_urls, LAMBDA u : ~Survives(u))
    /\ \A i \in DOMAIN competitor_urls :
           LET k == FilenameOf(competitor_urls[i])
           IN  IF Survives(competitor_urls[i])
               THEN site_files[k] = scored.before[k]
               ELSE ~site_files[k].exists
    /\ site_files[BusinessKey] = scored.before[BusinessKey]
    /\ scored.exc = "none" <=> \E i \in DOMAIN competitor_urls : Survives(competitor_urls[i])
    /\ scored.exc = "none" <=> scored.wrote

\* C9: given a valid business file, compute_tfidf skips every competitor
\* whose file is missing, empty or empty after filtering, deleting the file
\* when it exists, succeeds as long as one competitor survives, and raises
\* without writing a score map exactly when none survives.
C9_CompetitorsSkippedOrFail ==
    (scored.called /\ Usable(scored.before[BusinessKey], IntendedTerms(scored.name))) =>
        CompetitorsHandledAsSpecified

\* C9 for the calls whose business_name is None, a str or an empty list
C9_ExceptListFilter ==
    (/\ scored.called
     /\ ~(scored.name.kind = "list" /\ scored.name.val # <<>>)
     /\ Usable(scored.before[BusinessKey], IntendedTerms(scored.name))) =>
        CompetitorsHandledAsSpecified

\* C10: when the form passes a non-empty list of filter words and the site
\* files are usable, scoring completes and no filter word is a unigram term
\* of either score map.
C10_FilterWordsRemoved ==
    (/\ scored.called
     /\ scored.name.kind = "list" /\ scored.name.val # <<>>
     /\ Usable(scored.before[BusinessKey], IntendedTerms(scored.name))
     /\ \E i \in DOMAIN competitor_urls : Survives(competitor_urls[i])) =>
        /\ scored.exc = "none"
        /\ \A i \in DOMAIN scored.name.val :
               /\ ~HasKey(json_files.business.map, scored.name.val[i])
               /\ ~HasKey(json_files.competitors.map, scored.name.val[i])

\* C10 for a business name given as a str on the command line
C10_NameWordsRemoved ==
    (scored.called /\ scored.name.kind = "str" /\ scored.exc = "none") =>
        \A t \in NameTerms(scored.name) :
            /\ ~HasKey(json_files.business.map, t)
            /\ ~HasKey(json_files.competitors.map, t)

\* a stage starts only when the stage before it returned without error
StagesInOrder ==
    /\ (stage' = "score" /\ stage # "score") =>
           stage = "collect" /\ crawled'.called /\ ~scored'.called
    /\ (stage' = "render" /\ stage # "render") =>
           /\ stage = "score"
           /\ crawled.called
           /\ scored'.called /\ scored'.exc = "none"
           /\ ui_error' = "none"
    /\ (stage' = "shown" /\ stage # "shown") =>
           stage = "render" /\ scored.called /\ scored.exc = "none" /\ ui_error' = "none"

\* an exception ends the run: it is shown, and nothing runs until the button
\* is pressed again
ErrorEndsRun ==
    /\ (stage' = "failed" /\ stage # "failed") =>
           /\ stage = "score"
           /\ scored'.exc # "none"
           /\ ui_error' = scored'.exc
           /\ png_files' = png_files
    /\ stage = "failed" =>
           /\ stage' \in {"failed", "collect"}
           /\ crawled' \in {crawled, NoCrawl}
           /\ png_files' = png_files
           /\ stage' = "failed" => ui_error' = ui_error
    /\ png_files' # png_files => stage = "render"
    /\ (crawled'.called /\ crawled' # crawled) => stage = "collect"

\* C14: in one run of the form the stages are invoked in the order
\* scrape_websites, compute_tfidf, generate_wordclouds; a stage is invoked
\* only after the previous one returned without error; an exception of a
\* stage is caught in main and shown as a processing error, and no later
\* stage is invoked in that run.
C14_StagesInOrderErrorStops == [][StagesInOrder /\ ErrorEndsRun]_vars

\* a run in which scrape_websites returned, compute_tfidf raised, the error
\* is shown and generate_wordclouds wrote no image
C14_Witness ==
    /\ stage = "failed"
    /\ crawled.called
    /\ scored.called
    /\ scored.exc = "ValueError"
    /\ ui_error = "ValueError"
    /\ png_files = {}

AllPositive(d) == \A i \in DOMAIN d : d[i].score > 0

\* C15: for two score maps whose weights are all strictly positive, no term
\* is a key of both _compute_difference(A, B) and _compute_difference(B, A).
C15_DifferencesDisjoint ==
    (dpc = "done" /\ AllPositive(tfidf_a) /\ AllPositive(tfidf_b)) =>
        Keys(diff_ab) \cap Keys(diff_ba) = {}

\* both maps are positive and hold the same two terms, and each direction
\* keeps one of them
C15_Witness ==
    /\ dpc = "done"
    /\ AllPositive(tfidf_a) /\ AllPositive(tfidf_b)
    /\ Keys(tfidf_a) = Keys(tfidf_b)
    /\ Cardinality(Keys(tfidf_a)) = 2
    /\ diff_ab # <<>>
    /\ diff_ba # <<>>
    /\ Keys(diff_ab) \cup Keys(diff_ba) = Keys(tfidf_a)

====
